---- MODULE Spec2Model ----
(***************************************************************************)
(* Omega-Robot: the Omega cog (src/cogs/omega.py).                         *)
(*                                                                         *)
(* A text is a sequence of one-character strings.  A handler suspends at   *)
(* every await; the code between two awaits runs as one atomic action.     *)
(***************************************************************************)
EXTENDS Integers, Sequences, FiniteSets, TLC

(***************************************************************************)
(* Bounds of the model.                                                    *)
(***************************************************************************)
\* on_raw_reaction_add invocations in the concurrency model
MaxReactions == 2
\* longest message text given to the extractor
MaxLen == 5

(***************************************************************************)
(* Characters and texts.                                                   *)
(***************************************************************************)
Digits == {"0", "1", "2", "3", "4", "5", "6", "7", "8", "9"}

HexDigits == Digits \cup {"a", "b", "c", "d", "e", "f", "A", "B", "C", "D", "E", "F"}

Suffixes == {"e", "u", "l"}

Whitespace == {" ", "\t", "\n"}

\* '#', a digit, a suffix letter, another letter, space, tab, newline
Alphabet == {"#", "1", "e", "x", " ", "\t", "\n"}

Texts == UNION {[1..n -> Alphabet] : n \in 0..MaxLen}

(***************************************************************************)
(* The pattern (^| )#[0-9]+([eul])?($| ) as Python's re matches it.  A     *)
(* position is an index into the text, 1..Len+1; a match is reported by    *)
(* the position after its last character, 0 meaning no match.              *)
(***************************************************************************)
\* `$` without re.MULTILINE: the end of the text, or just before a newline
\* that is the last character of the text
AtDollar(s, t) ==
    \/ t = Len(s) + 1
    \/ t = Len(s) /\ s[t] = "\n"

\* ($| ): `$` is tried first and consumes nothing
BoundEnd(s, t) ==
    IF AtDollar(s, t) THEN t
    ELSE IF t <= Len(s) /\ s[t] = " " THEN t + 1
    ELSE 0

\* ([eul])?($| ): the optional group is greedy, then given up
TailEnd(s, t) ==
    IF t <= Len(s) /\ s[t] \in Suffixes /\ BoundEnd(s, t + 1) # 0
    THEN BoundEnd(s, t + 1)
    ELSE BoundEnd(s, t)

\* [0-9]+ greedy: the position after the longest run of digits from q
RECURSIVE DigitsEnd(_, _)
DigitsEnd(s, q) ==
    IF q <= Len(s) /\ s[q] \in Digits THEN DigitsEnd(s, q + 1) ELSE q

\* backtracking of [0-9]+ from d digits' end down to one digit after the '#' at q
RECURSIVE Backtrack(_, _, _)
Backtrack(s, q, d) ==
    IF d < q + 2 THEN 0
    ELSE IF TailEnd(s, d) # 0 THEN TailEnd(s, d)
    ELSE Backtrack(s, q, d - 1)

\* #[0-9]+([eul])?($| ) from position q
BodyEnd(s, q) ==
    IF q <= Len(s) /\ s[q] = "#" THEN Backtrack(s, q, DigitsEnd(s, q + 1)) ELSE 0

\* (^| ): `^` only at the first position, else a literal space
MatchAt(s, p) ==
    IF p = 1 /\ BodyEnd(s, 1) # 0 THEN BodyEnd(s, 1)
    ELSE IF p <= Len(s) /\ s[p] = " " THEN BodyEnd(s, p + 1)
    ELSE 0

\* re.findall with the pattern inside a lookahead: every position is tried,
\* group 1 (i[0] in the code) is collected for each position that matches
RECURSIVE FindFrom(_, _)
FindFrom(s, p) ==
    IF p > Len(s) + 1 THEN <<>>
    ELSE IF MatchAt(s, p) # 0
         THEN <<SubSeq(s, p, MatchAt(s, p) - 1)>> \o FindFrom(s, p + 1)
         ELSE FindFrom(s, p + 1)

\* the pattern without its lookahead: a match consumes its text, and the
\* search goes on after it
RECURSIVE FindConsuming(_, _)
FindConsuming(s, p) ==
    IF p > Len(s) + 1 THEN <<>>
    ELSE IF MatchAt(s, p) # 0
         THEN <<SubSeq(s, p, MatchAt(s, p) - 1)>>
              \o FindConsuming(s, IF MatchAt(s, p) > p THEN MatchAt(s, p) ELSE p + 1)
         ELSE FindConsuming(s, p + 1)

FindAllConsuming(s) == FindConsuming(s, 1)

FindAll(s) == FindFrom(s, 1)

\* re.search with the same pattern
Search(s) == \E p \in 1..(Len(s) + 1) : MatchAt(s, p) # 0

\* re.match("^#([A-Fa-f0-9]{6})$", content)
IsHexCode(s) ==
    /\ Len(s) >= 7
    /\ s[1] = "#"
    /\ \A k \in 2..7 : s[k] \in HexDigits
    /\ AtDollar(s, 8)

(***************************************************************************)
(* The request of one match (lines 25-40).                                 *)
(***************************************************************************)
\* str.lstrip(chars): the leading characters of the set are dropped
RECURSIVE LStrip(_, _)
LStrip(s, chars) ==
    IF s # <<>> /\ Head(s) \in chars THEN LStrip(Tail(s), chars) ELSE s

\* str.rstrip(chars): the trailing characters of the set are dropped
RECURSIVE RStrip(_, _)
RStrip(s, chars) ==
    IF s # <<>> /\ s[Len(s)] \in chars THEN RStrip(SubSeq(s, 1, Len(s) - 1), chars) ELSE s

\* str.strip(chars)
Strip(s, chars) == RStrip(LStrip(s, chars), chars)

\* only the first of the three strips
IssueOfOneStrip(i) == Strip(i, {"#", "e", " "})

\* lines 25-27: the issue number of match i
IssueOf(i) ==
    Strip(Strip(Strip(i, {"#", "e", " "}), {"#", "u", " "}), {"#", "l", " "})

\* "e" in i[0]
Contains(i, c) == \E k \in DOMAIN i : i[k] = c

\* lines 29-36: the repository of match i
RepoOf(i) ==
    IF Contains(i, "e") THEN "numworks/epsilon"
    ELSE IF Contains(i, "u") THEN "UpsilonNumworks/Upsilon"
    ELSE IF Contains(i, "l") THEN "Lambda-Numworks/Lambda"
    ELSE "omega-numworks/omega"

\* lines 38-40: what is requested for match i
Request(i) == [repo |-> RepoOf(i), issue |-> IssueOf(i)]

(***************************************************************************)
(* State of the cog and of the chat platform.                              *)
(***************************************************************************)
VARIABLES
    issue_embeds,   \* Omega.issue_embeds: message id -> 1
    om,             \* the on_message invocations, one record each
    rx,             \* the on_raw_reaction_add invocations, one record each
    trash,          \* message ids bearing the bot's dismiss reaction
    deleted,        \* message id -> number of message.delete() calls on it
    popped          \* history: every entry removed, by which path and while
                    \* on_message was suspended where

vars == <<issue_embeds, om, rx, trash, deleted, popped>>

\* The model follows one invocation of on_message.  Message ids are unique, so
\* the invocations for two messages store and pop different keys of
\* issue_embeds and share nothing else.
Handlers == {1}

Reactions == 1..MaxReactions

\* response.status of a successful request
OK == 200

Statuses == {OK, 404}

\* the dismiss marker and some other emoji
Trash == "wastebasket"

Emojis == {Trash, "thumbsup"}

\* message contents of the concurrency model: a colour code, a text that is
\* both a colour code and an issue reference, two adjacent issue references
HexOnly == <<"#", "a", "1", "b", "2", "c", "3">>

HexAndIssue == <<"#", "1", "2", "3", "4", "5", "6">>

TwoIssues == <<"#", "1", " ", "#", "2", "e">>

Contents == {HexOnly, HexAndIssue, TwoIssues}

\* the id of the k-th message sent by invocation h; <<h, 0>> is the user's message
Id(h, k) == <<h, k>>

NoMessage == <<0, 0>>

(***************************************************************************)
(* Helpers on one invocation's record r.                                   *)
(***************************************************************************)
\* aiohttp.ClientSession() entered by function fn
OpenSession(r, fn) ==
    [r EXCEPT !.sessions = Append(@, [fn |-> fn, open |-> TRUE])]

\* the async with block of fn's session is left
CloseSession(r, fn) ==
    [r EXCEPT !.sessions =
        [k \in DOMAIN @ |-> IF @[k].fn = fn THEN [@[k] EXCEPT !.open = FALSE] ELSE @[k]]]

\* the session fn holds open (its latest)
SessionOf(r, fn) ==
    CHOOSE k \in DOMAIN r.sessions :
        /\ r.sessions[k].fn = fn
        /\ r.sessions[k].open
        /\ \A j \in DOMAIN r.sessions : r.sessions[j].fn = fn => j <= k

\* session.get(...) by fn for match number n; status 0 until the response
Get(r, fn, n) ==
    [r EXCEPT !.gets = Append(@, [fn |-> fn, session |-> SessionOf(r, fn),
                                  n |-> n, status |-> 0])]

\* the response of the latest request arrives
Respond(r, status) ==
    [r EXCEPT !.gets[Len(r.gets)].status = status]

\* message.channel.send(...) called at a line of the source: a notice carries
\* a status, an embed send carries "Embed" or "None"
Send(r, line, embed, status, n) ==
    [r EXCEPT !.sent = Append(@, [line |-> line, embed |-> embed,
                                  notice |-> status, n |-> n,
                                  posted |-> embed # "None"])]

\* dict.pop(key): the dict without the key
Pop(d, key) == [k \in DOMAIN d \ {key} |-> d[k]]

\* dict[key] = 1
Store(d, key) == [k \in DOMAIN d \cup {key} |-> IF k = key THEN 1 ELSE d[k]]

DeleteCount(id) == IF id \in DOMAIN deleted THEN deleted[id] ELSE 0

\* the history entry of a removal of id's entry by a path ("timeout", "reaction")
Removal(id, by) == [id |-> id, by |-> by, during |-> om[id[1]].pc]

\* id's entry was removed by that path
PoppedBy(id, by) == \E p \in popped : p.id = id /\ p.by = by

\* the messages that exist on the platform: the users' messages and what the
\* bot has posted, minus what was deleted
Existing ==
    {id \in UNION {{Id(h, k) : k \in 0..Len(om[h].sent)} : h \in Handlers} :
        /\ om[id[1]].pc # "idle"
        /\ id[2] > 0 => om[id[1]].sent[id[2]].posted
        /\ DeleteCount(id) = 0}

(***************************************************************************)
(* get_github_issues, the async generator driven by on_message's loop.     *)
(***************************************************************************)
\* every request of get_github_issues through a scope of its own
FetchIssueOwnScope(r, n) ==
    IF n <= Len(r.matches)
    THEN [Get(OpenSession(CloseSession(r, "get_github_issues"), "get_github_issues"),
              "get_github_issues", n)
            EXCEPT !.pc = "issue_get", !.n = n]
    ELSE [CloseSession(r, "get_github_issues") EXCEPT !.pc = "done"]

\* lines 24-40: the loop takes match n, or ends and the session is released
FetchIssue(r, n) ==
    IF n <= Len(r.matches)
    THEN [Get(r, "get_github_issues", n) EXCEPT !.pc = "issue_get", !.n = n]
    ELSE [CloseSession(r, "get_github_issues") EXCEPT !.pc = "done"]

\* lines 179-180 and 21-23: the scan of the message, then the first request
StartIssues(r) ==
    IF Search(r.content)
    THEN FetchIssue(OpenSession([r EXCEPT !.matches = FindAll(r.content)],
                                "get_github_issues"), 1)
    ELSE [r EXCEPT !.pc = "done"]

(***************************************************************************)
(* Omega.__init__, and no event delivered yet.                             *)
(***************************************************************************)
Init ==
    /\ issue_embeds = [k \in {} |-> 1]
    /\ om = [h \in Handlers |->
                [pc |-> "idle", content |-> <<>>, matches |-> <<>>, n |-> 0,
                 issue_embed |-> NoMessage, color_embed |-> "unset",
                 error |-> "none", sent |-> <<>>, gets |-> <<>>, sessions |-> <<>>]]
    /\ rx = [r \in Reactions |->
                [pc |-> "idle", user_bot |-> FALSE, emoji |-> Trash,
                 message_id |-> NoMessage, outcome |-> "none"]]
    /\ trash = {}
    /\ deleted = [k \in {} |-> 0]
    /\ popped = {}

(***************************************************************************)
(* Omega.on_message.  Each action is the code from one await to the next;  *)
(* pc names the await the invocation is suspended at.  The awaits of       *)
(* response.json() change nothing and are run through.  The events of the  *)
(* model are messages written by users, the ones the user_only decorator   *)
(* lets through.                                                           *)
(***************************************************************************)
\* lines 172-174 and 130-133: the message arrives; a colour code starts the
\* colour lookup, any other text goes to the issue scan
OnMessage(h, c) ==
    /\ om[h].pc = "idle"
    /\ LET r == [om[h] EXCEPT !.content = c] IN
       om' = [om EXCEPT ![h] =
                IF IsHexCode(c)
                THEN [Get(OpenSession(r, "make_color_embed"), "make_color_embed", 0)
                        EXCEPT !.pc = "color_get"]
                ELSE StartIssues(r)]
    /\ UNCHANGED <<issue_embeds, rx, trash, deleted, popped>>

\* lines 134-140 and 142-154, 176: the colour response; on success the embed
\* is built and sent, otherwise the notice is sent
ColorResponse(h, status) ==
    /\ om[h].pc = "color_get"
    /\ LET r == Respond(om[h], status) IN
       om' = [om EXCEPT ![h] =
                IF status = OK
                THEN [Send(CloseSession(r, "make_color_embed"), 176, "Embed", 0, 0)
                        EXCEPT !.pc = "color_send", !.color_embed = "Embed"]
                ELSE [Send(r, 137, "absent", status, 0) EXCEPT !.pc = "color_notice"]]
    /\ UNCHANGED <<issue_embeds, rx, trash, deleted, popped>>

\* lines 140 and 174-176: make_color_embed returns None, which on_message sends
ColorNoticeSent(h) ==
    /\ om[h].pc = "color_notice"
    /\ om' = [om EXCEPT ![h] =
                [Send(CloseSession(om[h], "make_color_embed"), 176, "None", 0, 0)
                    EXCEPT !.pc = "color_send", !.color_embed = "None"]]
    /\ UNCHANGED <<issue_embeds, rx, trash, deleted, popped>>

\* what the platform answers to a send: a message without content and without
\* embed may be refused
SendOutcomes(r) ==
    IF r.sent[Len(r.sent)].embed = "None" THEN {"ok", "HTTPException"} ELSE {"ok"}

\* line 176 returns, or raises; then lines 179-180
ColorSent(h, outcome) ==
    /\ om[h].pc = "color_send"
    /\ outcome \in SendOutcomes(om[h])
    /\ om' = [om EXCEPT ![h] =
                IF outcome = "ok"
                THEN StartIssues([om[h] EXCEPT !.sent[Len(om[h].sent)].posted = TRUE])
                ELSE [om[h] EXCEPT !.pc = "crashed", !.error = outcome]]
    /\ UNCHANGED <<issue_embeds, rx, trash, deleted, popped>>

\* lines 41-46, then 182 and 49-74 or 186: a failed lookup sends the notice;
\* a successful one yields the issue, whose embed is built (with the commits
\* lookup for a pull request) and sent
IssueResponse(h, status, pull_request) ==
    /\ om[h].pc = "issue_get"
    /\ LET r == Respond(om[h], status) IN
       om' = [om EXCEPT ![h] =
                IF status # OK
                THEN [Send(r, 42, "absent", status, r.n) EXCEPT !.pc = "issue_notice"]
                ELSE IF pull_request
                THEN [Get(OpenSession(r, "make_embed"), "make_embed", r.n)
                        EXCEPT !.pc = "commits_get"]
                ELSE [Send(r, 186, "Embed", 0, r.n) EXCEPT !.pc = "issue_send"]]
    /\ UNCHANGED <<issue_embeds, rx, trash, deleted, popped>>

\* the failed reference skipped, the loop going on with the next match
IssueNoticeSentContinue(h) ==
    /\ om[h].pc = "issue_notice"
    /\ om' = [om EXCEPT ![h] = FetchIssue(om[h], om[h].n + 1)]
    /\ UNCHANGED <<issue_embeds, rx, trash, deleted, popped>>

\* line 45: the generator returns, its session is released and the loop of
\* on_message ends
IssueNoticeSent(h) ==
    /\ om[h].pc = "issue_notice"
    /\ om' = [om EXCEPT ![h] =
                [CloseSession(om[h], "get_github_issues") EXCEPT !.pc = "done"]]
    /\ UNCHANGED <<issue_embeds, rx, trash, deleted, popped>>

\* lines 74-121 and 186: the commits arrive, the embed is finished and sent
CommitsResponse(h) ==
    /\ om[h].pc = "commits_get"
    /\ om' = [om EXCEPT ![h] =
                [Send(CloseSession(Respond(om[h], OK), "make_embed"),
                      186, "Embed", 0, om[h].n)
                    EXCEPT !.pc = "issue_send"]]
    /\ UNCHANGED <<issue_embeds, rx, trash, deleted, popped>>

\* lines 186-187: the posted message is issue_embed; the bot reacts to it
IssueSent(h) ==
    /\ om[h].pc = "issue_send"
    /\ om' = [om EXCEPT ![h].pc = "add_reaction",
                        ![h].issue_embed = Id(h, Len(om[h].sent))]
    /\ trash' = trash \cup {Id(h, Len(om[h].sent))}
    /\ UNCHANGED <<issue_embeds, rx, deleted, popped>>

\* the timeout detached from the loop: the id is stored and the next match
\* is fetched at once
RegisteredDetached(h) ==
    /\ om[h].pc = "add_reaction"
    /\ issue_embeds' = Store(issue_embeds, om[h].issue_embed)
    /\ om' = [om EXCEPT ![h] = FetchIssue(om[h], om[h].n + 1)]
    /\ UNCHANGED <<rx, trash, deleted, popped>>

\* lines 188-191: the id is stored and the 60 seconds start
Registered(h) ==
    /\ om[h].pc = "add_reaction"
    /\ issue_embeds' = Store(issue_embeds, om[h].issue_embed)
    /\ om' = [om EXCEPT ![h].pc = "sleep"]
    /\ UNCHANGED <<rx, trash, deleted, popped>>

\* lines 191-192: the 60 seconds have elapsed; the bot's reaction is removed
Timeout(h) ==
    /\ om[h].pc = "sleep"
    /\ om' = [om EXCEPT ![h].pc = "remove_reaction"]
    /\ UNCHANGED <<issue_embeds, rx, trash, deleted, popped>>

\* what the platform answers to remove_reaction: a deleted message is not
\* found; on an existing one the call may still fail
RemoveOutcomes(id) ==
    IF DeleteCount(id) > 0 THEN {"NotFound"} ELSE {"ok", "HTTPException"}

\* the pop forgotten: the dict as it was
PopOnTimeoutForgotten(d, key) == d

\* line 193: self.issue_embeds.pop(issue_embed.id), without a default
PopOnTimeout(d, key) == Pop(d, key)

\* lines 192-193, then the generator resumes at line 46 for the next match:
\* remove_reaction returns or raises; the pop raises KeyError on a missing key.
\* An exception leaves the generator suspended at its yield, its session open.
Cleanup(h, outcome) ==
    /\ om[h].pc = "remove_reaction"
    /\ outcome \in RemoveOutcomes(om[h].issue_embed)
    /\ LET id == om[h].issue_embed IN
       IF outcome # "ok"
       THEN /\ om' = [om EXCEPT ![h].pc = "crashed", ![h].error = outcome]
            /\ UNCHANGED <<issue_embeds, trash, popped>>
       ELSE IF id \notin DOMAIN issue_embeds
       THEN /\ om' = [om EXCEPT ![h].pc = "crashed", ![h].error = "KeyError"]
            /\ trash' = trash \ {id}
            /\ UNCHANGED <<issue_embeds, popped>>
       ELSE /\ om' = [om EXCEPT ![h] = FetchIssue(om[h], om[h].n + 1)]
            /\ trash' = trash \ {id}
            /\ issue_embeds' = PopOnTimeout(issue_embeds, id)
            /\ popped' = popped \cup {Removal(id, "timeout")}
    /\ UNCHANGED <<rx, deleted>>

(***************************************************************************)
(* Omega.on_raw_reaction_add.                                              *)
(***************************************************************************)
\* lines 196-199: a reaction was added to an existing message; the handler
\* asks the platform for the reacting user.  Invocations are numbered in
\* their order of arrival.
OnRawReactionAdd(r, user_bot, emoji, message_id) ==
    /\ rx[r].pc = "idle"
    /\ \A q \in Reactions : q < r => rx[q].pc # "idle"
    /\ message_id \in Existing
    /\ rx' = [rx EXCEPT ![r] = [pc |-> "fetch_user", user_bot |-> user_bot,
                                emoji |-> emoji, message_id |-> message_id,
                                outcome |-> "none"]]
    /\ UNCHANGED <<issue_embeds, om, trash, deleted, popped>>

\* the record of an invocation that has returned: its arguments, and how it ended
Finished(x, outcome) == [x EXCEPT !.pc = "done", !.outcome = outcome]

\* a lookup where the code pops: the entry stays in the dict
AfterCheckGet(d, emoji, message_id) == d

\* the operands of `and` swapped: the pop is evaluated whatever the emoji
AfterCheckPopFirst(d, emoji, message_id) == Pop(d, message_id)

\* lines 205-207, the dict after `emoji == trash and issue_embeds.pop(id, None)`:
\* the pop is evaluated only when the emoji is the dismiss marker
AfterCheck(d, emoji, message_id) ==
    IF emoji = Trash THEN Pop(d, message_id) ELSE d

\* the result of the pop left out of the condition
CheckPassesOnEmoji(d, emoji, message_id) == emoji = Trash

\* lines 205-207, the value of the condition: the popped value is truthy
CheckPasses(d, emoji, message_id) ==
    /\ emoji = Trash
    /\ message_id \in DOMAIN d
    /\ d[message_id] # 0

\* lines 200-209: bots are ignored; otherwise the check-and-pop, and on
\* success the message is fetched
UserFetched(r) ==
    /\ rx[r].pc = "fetch_user"
    /\ LET x == rx[r] IN
       IF x.user_bot
       THEN /\ rx' = [rx EXCEPT ![r] = Finished(x, "bot")]
            /\ UNCHANGED <<issue_embeds, popped>>
       ELSE /\ issue_embeds' = AfterCheck(issue_embeds, x.emoji, x.message_id)
            /\ popped' = IF x.message_id \in DOMAIN issue_embeds \ DOMAIN issue_embeds'
                         THEN popped \cup {Removal(x.message_id, "reaction")}
                         ELSE popped
            /\ rx' = [rx EXCEPT ![r] =
                        IF CheckPasses(issue_embeds, x.emoji, x.message_id)
                        THEN [x EXCEPT !.pc = "fetch_message"]
                        ELSE Finished(x, "no-op")]
    /\ UNCHANGED <<om, trash, deleted>>

\* line 210: the message is fetched and message.delete() is called; the
\* await of the deletion changes nothing more
MessageFetched(r) ==
    /\ rx[r].pc = "fetch_message"
    /\ deleted' = [k \in DOMAIN deleted \cup {rx[r].message_id} |->
                     IF k = rx[r].message_id THEN DeleteCount(k) + 1 ELSE deleted[k]]
    /\ rx' = [rx EXCEPT ![r] = Finished(rx[r], "deleted")]
    /\ UNCHANGED <<issue_embeds, om, trash, popped>>

(***************************************************************************)
(* The event loop: any suspended invocation may be resumed, any event may  *)
(* be delivered.                                                           *)
(***************************************************************************)
Next ==
    \/ \E h \in Handlers, c \in Contents : OnMessage(h, c)
    \/ \E h \in Handlers, status \in Statuses : ColorResponse(h, status)
    \/ \E h \in Handlers : ColorNoticeSent(h)
    \/ \E h \in Handlers, outcome \in {"ok", "HTTPException"} : ColorSent(h, outcome)
    \/ \E h \in Handlers, status \in Statuses, pull_request \in BOOLEAN :
            IssueResponse(h, status, pull_request)
    \/ \E h \in Handlers : IssueNoticeSent(h)
    \/ \E h \in Handlers : CommitsResponse(h)
    \/ \E h \in Handlers : IssueSent(h)
    \/ \E h \in Handlers : Registered(h)
    \/ \E h \in Handlers : Timeout(h)
    \/ \E h \in Handlers, outcome \in {"ok", "HTTPException", "NotFound"} :
            Cleanup(h, outcome)
    \/ \E r \in Reactions, user_bot \in BOOLEAN, emoji \in Emojis,
          message_id \in Existing : OnRawReactionAdd(r, user_bot, emoji, message_id)
    \/ \E r \in Reactions : UserFetched(r)
    \/ \E r \in Reactions : MessageFetched(r)

Spec == Init /\ [][Next]_vars

(***************************************************************************)
(* The extractor alone: line 21 applied to every text up to MaxLen.        *)
(***************************************************************************)
ExtractInit ==
    /\ \E c \in Texts :
        om = [h \in Handlers |->
                [pc |-> IF h = 1 THEN "scan" ELSE "idle",
                 content |-> IF h = 1 THEN c ELSE <<>>, matches |-> <<>>, n |-> 0,
                 issue_embed |-> NoMessage, color_embed |-> "unset",
                 error |-> "none", sent |-> <<>>, gets |-> <<>>, sessions |-> <<>>]]
    /\ issue_embeds = [k \in {} |-> 1]
    /\ rx = [r \in Reactions |->
                [pc |-> "idle", user_bot |-> FALSE, emoji |-> Trash,
                 message_id |-> NoMessage, outcome |-> "none"]]
    /\ trash = {}
    /\ deleted = [k \in {} |-> 0]
    /\ popped = {}

\* line 21: matches = re.findall(...)
Scan(h) ==
    /\ om[h].pc = "scan"
    /\ om' = [om EXCEPT ![h].matches = FindAll(om[h].content), ![h].pc = "scanned"]
    /\ UNCHANGED <<issue_embeds, rx, trash, deleted, popped>>

ExtractNext == \E h \in Handlers : Scan(h)

ExtractSpec == ExtractInit /\ [][ExtractNext]_vars

(***************************************************************************)
(* The dismissal of issue embeds.                                          *)
(***************************************************************************)
\* invocation r is a dismiss reaction: the dismiss marker, added by no bot
IsDismiss(r) == rx[r].pc # "idle" /\ ~rx[r].user_bot /\ rx[r].emoji = Trash

\* C1: a message is deleted at most once, however the reaction handlers and
\* the timeout of on_message interleave
AtMostOneDeletion == \A id \in DOMAIN deleted : deleted[id] <= 1

\* two dismiss reactions on one issue embed have both been handled, one has
\* deleted it, the other found nothing, and the timeout has run as well
DismissRaceWitness ==
    \E r1 \in Reactions, r2 \in Reactions, h \in Handlers :
        /\ r1 # r2
        /\ IsDismiss(r1) /\ IsDismiss(r2)
        /\ rx[r1].message_id = rx[r2].message_id
        /\ rx[r1].outcome = "deleted" /\ rx[r2].outcome = "no-op"
        /\ om[h].issue_embed = rx[r1].message_id
        /\ om[h].pc \notin {"add_reaction", "sleep", "remove_reaction"}
        /\ DeleteCount(rx[r1].message_id) = 1

\* the cleanup of lines 192-193 has run for the embed on_message holds
CleanupRan(h) ==
    /\ om[h].issue_embed # NoMessage
    /\ om[h].pc \notin {"add_reaction", "sleep", "remove_reaction"}

\* C2: when a dismiss reaction has removed the entry before the timeout, the
\* cleanup finds it absent and raises nothing: unless the platform fails the
\* call, on_message goes on without an error
TimeoutAfterDismissIsSilent ==
    \A h \in Handlers :
        /\ \E p \in popped : /\ p.id = om[h].issue_embed
                             /\ p.by = "reaction"
                             /\ p.during = "sleep"
        /\ CleanupRan(h)
        /\ om[h].error \notin {"HTTPException", "NotFound"}
        => om[h].error = "none" /\ om[h].pc # "crashed"

\* invocation r takes its decision in this step (lines 200-207)
Decides(r) == rx[r].pc = "fetch_user" /\ rx'[r].pc # "fetch_user"

\* invocation r calls message.delete() in this step (line 210)
Deletes(r) == rx[r].pc = "fetch_message" /\ rx'[r].pc # "fetch_message"

\* C3: the reaction handler goes on to delete exactly when the actor is no
\* bot, the emoji is the dismiss marker and the id has a live entry; any
\* other reaction changes neither issue_embeds nor the messages, and every
\* deletion is the work of an invocation that took that decision
OnlyDismissOfLiveEntryDeletes ==
    [][/\ \A r \in Reactions : Decides(r) =>
            LET live == /\ ~rx[r].user_bot
                        /\ rx[r].emoji = Trash
                        /\ rx[r].message_id \in DOMAIN issue_embeds
            IN  /\ rx'[r].pc = "fetch_message" <=> live
                /\ ~live => issue_embeds' = issue_embeds /\ deleted' = deleted
       /\ deleted' # deleted =>
            \E r \in Reactions :
                /\ Deletes(r)
                /\ IsDismiss(r)
                /\ PoppedBy(rx[r].message_id, "reaction")
                /\ \A id \in DOMAIN deleted' :
                      id # rx[r].message_id =>
                          id \in DOMAIN deleted /\ deleted'[id] = deleted[id]
      ]_vars

\* a bot's dismiss reaction and a user's other emoji on a live entry have
\* both been handled, and the entry is still live
IgnoredReactionsWitness ==
    \E r1 \in Reactions, r2 \in Reactions :
        /\ rx[r1].pc = "done" /\ rx[r1].user_bot /\ rx[r1].emoji = Trash
        /\ rx[r2].pc = "done" /\ ~rx[r2].user_bot /\ rx[r2].emoji # Trash
        /\ rx[r1].message_id = rx[r2].message_id
        /\ rx[r1].message_id \in DOMAIN issue_embeds
        /\ DeleteCount(rx[r1].message_id) = 0

\* C4: a dismiss reaction on a registered embed removes the entry and goes on
\* to delete the message, which had not been deleted before; a dismiss
\* reaction that finds no entry removes nothing and deletes nothing
DismissThenNoOp ==
    [][\A r \in Reactions :
        /\ Decides(r) /\ IsDismiss(r) =>
            IF rx[r].message_id \in DOMAIN issue_embeds
            THEN /\ rx[r].message_id \notin DOMAIN issue_embeds'
                 /\ rx'[r].pc = "fetch_message"
            ELSE /\ issue_embeds' = issue_embeds
                 /\ deleted' = deleted
                 /\ rx'[r].outcome = "no-op"
        /\ Deletes(r) =>
            /\ DeleteCount(rx[r].message_id) = 0
            /\ rx[r].message_id \in DOMAIN deleted'
            /\ deleted'[rx[r].message_id] = 1
      ]_vars

\* an embed was dismissed and deleted, and a second dismiss reaction on it
\* has been handled as a no-op
SecondDismissWitness ==
    \E r1 \in Reactions, r2 \in Reactions :
        /\ r1 # r2
        /\ IsDismiss(r1) /\ IsDismiss(r2)
        /\ rx[r1].message_id = rx[r2].message_id
        /\ rx[r1].outcome = "deleted" /\ rx[r2].outcome = "no-op"
        /\ PoppedBy(rx[r1].message_id, "reaction")
        /\ rx[r1].message_id \notin DOMAIN issue_embeds

(***************************************************************************)
(* The timeout of an issue embed.                                          *)
(***************************************************************************)
\* the k-th message sent by invocation h is an issue embed
IsIssueEmbed(h, k) == k \in DOMAIN om[h].sent /\ om[h].sent[k].line = 186

\* the 60 seconds of that embed have elapsed and both calls of its cleanup
\* have returned: the loop is at a later match, or on_message has returned
CleanupReturned(h, k) ==
    \/ om[h].sent[k].n < om[h].n
    \/ om[h].sent[k].n = om[h].n /\ om[h].pc = "done"

\* no dismiss reaction was ever added to the message
NeverDismissed(id) == \A r \in Reactions : ~(IsDismiss(r) /\ rx[r].message_id = id)

NoEntryAfterCleanup ==
    \A h \in Handlers : CleanupRan(h) => om[h].issue_embed \notin DOMAIN issue_embeds

(***************************************************************************)
(* Failed lookups.                                                         *)
(***************************************************************************)
\* the i-th request of invocation h came back with a non-success status
Failed(h, i, fn) ==
    /\ i \in DOMAIN om[h].gets
    /\ om[h].gets[i].fn = fn
    /\ om[h].gets[i].status \notin {0, OK}

\* C7: a failed issue lookup sends exactly one notice, which carries the
\* status; no embed is posted for that reference and no issue lookup is
\* issued for a later reference
IssueFailureStopsBatch ==
    \A h \in Handlers : \A i \in DOMAIN om[h].gets :
        Failed(h, i, "get_github_issues") =>
            LET g == om[h].gets[i]
                notices == {k \in DOMAIN om[h].sent : om[h].sent[k].line = 42}
            IN  /\ Cardinality(notices) = 1
                /\ \A k \in notices : /\ om[h].sent[k].notice = g.status
                                      /\ om[h].sent[k].n = g.n
                /\ \A k \in DOMAIN om[h].sent : IsIssueEmbed(h, k) => om[h].sent[k].n # g.n
                /\ \A j \in DOMAIN om[h].gets : j > i => om[h].gets[j].fn # "get_github_issues"
                /\ om[h].pc \in {"issue_notice", "done"}

\* the first of two references failed and on_message has returned
FirstOfTwoFailedWitness ==
    \E h \in Handlers : \E i \in DOMAIN om[h].gets :
        /\ Failed(h, i, "get_github_issues")
        /\ om[h].gets[i].n = 1
        /\ Len(om[h].matches) = 2
        /\ om[h].pc = "done"

\* C8: after a failed colour lookup the notice is sent and no colour embed
\* send is performed
NoColorSendAfterFailure ==
    \A h \in Handlers : \A i \in DOMAIN om[h].gets :
        Failed(h, i, "make_color_embed") =>
            /\ \E k \in DOMAIN om[h].sent : /\ om[h].sent[k].line = 137
                                            /\ om[h].sent[k].notice = om[h].gets[i].status
            /\ \A k \in DOMAIN om[h].sent : om[h].sent[k].line # 176

(***************************************************************************)
(* The order of the references of one message.                             *)
(***************************************************************************)
\* C9: when the issue of reference k+1 is requested, the embed of reference
\* k has been posted, has had the bot's reaction added and removed again, and
\* its entry has been stored and then removed by the timeout
ReferencesAreSequential ==
    \A h \in Handlers : \A i \in DOMAIN om[h].gets :
        om[h].gets[i].fn = "get_github_issues" /\ om[h].gets[i].n > 1 =>
            \E k \in DOMAIN om[h].sent :
                /\ IsIssueEmbed(h, k)
                /\ om[h].sent[k].n = om[h].gets[i].n - 1
                /\ om[h].sent[k].posted
                /\ Id(h, k) \notin trash
                /\ Id(h, k) \notin DOMAIN issue_embeds
                /\ \E p \in popped : /\ p.id = Id(h, k)
                                     /\ p.by = "timeout"
                                     /\ p.during = "remove_reaction"

\* the issue of a second reference has been requested
SecondReferenceWitness ==
    \E h \in Handlers : \E i \in DOMAIN om[h].gets :
        /\ om[h].gets[i].fn = "get_github_issues"
        /\ om[h].gets[i].n = 2
        /\ om[h].gets[i].status = OK

(***************************************************************************)
(* The extractor.                                                          *)
(***************************************************************************)
\* s[i..j] is '#', one or more digits, and at most one of e, u, l
IsToken(s, i, j) ==
    /\ s[i] = "#"
    /\ \E d \in (i + 1)..j :
        /\ \A k \in (i + 1)..d : s[k] \in Digits
        /\ d = j \/ (d + 1 = j /\ s[j] \in Suffixes)

\* the token is bounded by the edges of the text or by whitespace
BoundedByWhitespace(s, i, j) ==
    /\ i = 1 \/ s[i - 1] \in Whitespace
    /\ j = Len(s) \/ s[j + 1] \in Whitespace

\* the token is bounded on the left by the start of the text or a space, on
\* the right by the end of the text, a space, or a newline that ends the text
BoundedBySpace(s, i, j) ==
    /\ i = 1 \/ s[i - 1] = " "
    /\ \/ j = Len(s)
       \/ s[j + 1] = " "
       \/ j + 1 = Len(s) /\ s[j + 1] = "\n"

\* the tokens of s from position i on, from left to right, each occurrence
\* once; the bounds are whitespace (any = TRUE) or spaces (any = FALSE)
RECURSIVE TokensFrom(_, _, _)
TokensFrom(s, i, any) ==
    IF i > Len(s) THEN <<>>
    ELSE LET ends == {j \in i..Len(s) :
                        /\ IsToken(s, i, j)
                        /\ IF any THEN BoundedByWhitespace(s, i, j)
                                  ELSE BoundedBySpace(s, i, j)}
         IN  (IF ends = {} THEN <<>> ELSE <<SubSeq(s, i, CHOOSE j \in ends : TRUE)>>)
             \o TokensFrom(s, i + 1, any)

\* a match of the code without the spaces that bound it
Token(i) == SelectSeq(i, LAMBDA c : c # " ")

\* what the extractor has yielded for the text of invocation h
Yielded(h) == [k \in DOMAIN om[h].matches |-> Token(om[h].matches[k])]

\* C10 as stated: the extractor yields exactly the tokens bounded by the
\* edges of the text or by whitespace, in their order
ExtractsWhitespaceBoundedTokens ==
    \A h \in Handlers :
        om[h].pc = "scanned" => Yielded(h) = TokensFrom(om[h].content, 1, TRUE)

\* C10 amended: the extractor yields exactly the tokens bounded on the left
\* by the start of the text or a space and on the right by the end of the
\* text, a space, or a newline that ends the text, in their order, each
\* occurrence once
ExtractsSpaceBoundedTokens ==
    \A h \in Handlers :
        om[h].pc = "scanned" => Yielded(h) = TokensFrom(om[h].content, 1, FALSE)

\* two equal adjacent tokens separated by one space have both been yielded
AdjacentTokensWitness ==
    \E h \in Handlers :
        /\ om[h].pc = "scanned"
        /\ om[h].content = <<"#", "1", " ", "#", "1">>
        /\ Yielded(h) = <<(<<"#", "1">>), (<<"#", "1">>)>>

(***************************************************************************)
(* The requests of the references: lines 21-40 applied to every text up to *)
(* MaxLen over '#', two digits, the three suffixes and the space.          *)
(***************************************************************************)
RefAlphabet == {"#", "1", "2", "e", "u", "l", " "}

RefTexts == UNION {[1..n -> RefAlphabet] : n \in 0..MaxLen}

RequestInit ==
    /\ \E c \in RefTexts :
        om = [h \in Handlers |->
                [pc |-> IF h = 1 THEN "scan" ELSE "idle",
                 content |-> IF h = 1 THEN c ELSE <<>>, matches |-> <<>>, n |-> 0,
                 issue_embed |-> NoMessage, color_embed |-> "unset",
                 error |-> "none", sent |-> <<>>, gets |-> <<>>, sessions |-> <<>>]]
    /\ issue_embeds = [k \in {} |-> 1]
    /\ rx = [r \in Reactions |->
                [pc |-> "idle", user_bot |-> FALSE, emoji |-> Trash,
                 message_id |-> NoMessage, outcome |-> "none"]]
    /\ trash = {}
    /\ deleted = [k \in {} |-> 0]
    /\ popped = {}

\* lines 23-40 with every response a success: the requests of all matches,
\* in the order of the loop, through the one session of the generator
RequestAll(h) ==
    /\ om[h].pc = "scanned"
    /\ om' = [om EXCEPT
                ![h].sessions = <<[fn |-> "get_github_issues", open |-> FALSE]>>,
                ![h].gets = [k \in DOMAIN om[h].matches |->
                                [fn |-> "get_github_issues", session |-> 1, n |-> k,
                                 status |-> OK, url |-> Request(om[h].matches[k])]],
                ![h].n = Len(om[h].matches),
                ![h].pc = "requested"]
    /\ UNCHANGED <<issue_embeds, rx, trash, deleted, popped>>

RequestNext ==
    \/ \E h \in Handlers : Scan(h)
    \/ \E h \in Handlers : RequestAll(h)

RequestSpec == RequestInit /\ [][RequestNext]_vars

\* the digits of a token, in their order
DigitsOf(i) == SelectSeq(i, LAMBDA c : c \in Digits)

\* the repository the suffix of a token selects
RepoOfSuffix(i) ==
    LET last == Token(i)[Len(Token(i))] IN
    IF last = "e" THEN "numworks/epsilon"
    ELSE IF last = "u" THEN "UpsilonNumworks/Upsilon"
    ELSE IF last = "l" THEN "Lambda-Numworks/Lambda"
    ELSE "omega-numworks/omega"

\* C11: for every match the issue requested is the digit string of the token
\* and the repository is the one its suffix selects, the default without one
RequestFollowsToken ==
    \A h \in Handlers :
        om[h].pc = "requested" =>
            \A k \in DOMAIN om[h].gets :
                /\ om[h].gets[k].url.issue = DigitsOf(om[h].matches[k])
                /\ om[h].gets[k].url.repo = RepoOfSuffix(om[h].matches[k])

\* the request of ' #12l' has been made
SuffixRequestsWitness ==
    \E h \in Handlers :
        /\ om[h].pc = "requested"
        /\ om[h].content = <<" ", "#", "1", "2", "l">>
        /\ Len(om[h].gets) = 1
        /\ om[h].gets[1].url = [repo |-> "Lambda-Numworks/Lambda", issue |-> <<"1", "2">>]

(***************************************************************************)
(* The colour check: line 172 applied to '#' and six characters, with at   *)
(* most one more character before and after.                               *)
(***************************************************************************)
\* the {6} of the pattern
HexLen == 6

AffixChars == {" ", "\n", "x", "1", "#"}

Affixes == {<<>>} \cup {<<c>> : c \in AffixChars}

BodyChars == {"1", "a", "F", "g"}

ColorTexts ==
    {pre \o <<"#">> \o body \o post :
        pre \in Affixes, body \in [1..HexLen -> BodyChars], post \in Affixes}

ColorNext ==
    \E h \in Handlers :
        /\ om[h].pc = "idle"
        /\ \E c \in ColorTexts : OnMessage(h, c)

ColorSpec == Init /\ [][ColorNext]_vars

\* the whole text is '#' and six hexadecimal digits
ExactHexCode(s) ==
    /\ Len(s) = HexLen + 1
    /\ s[1] = "#"
    /\ \A k \in 2..(HexLen + 1) : s[k] \in HexDigits

\* C12: a message starts the colour lookup if and only if its whole content is
\* '#' and six hexadecimal digits
ColorLookupIffExactHexCode ==
    \A h \in Handlers :
        om[h].pc # "idle" =>
            (om[h].pc = "color_get" <=> ExactHexCode(om[h].content))

(***************************************************************************)
(* make_embed (lines 49-121).  The invocation is inside make_embed and its *)
(* record holds the locals of that call.  Only the lengths of the texts    *)
(* decide what the code does, so a text of the issue record is its length; *)
(* a commit line keeps, with its length, its index k in commits_data.      *)
(***************************************************************************)
MaxCommits == 4

MaxLabels == 20

\* the maximum size of a field's value
FieldMax == 1024

CommitLens == {30, 500, 1100}

LabelLens == {4, 50}

\* len(sep.join(texts)) for texts of the lengths lens
RECURSIVE SumLens(_)
SumLens(lens) == IF lens = <<>> THEN 0 ELSE Head(lens) + SumLens(Tail(lens))

JoinLen(lens, sep) ==
    IF lens = <<>> THEN 0 ELSE SumLens(lens) + Len(sep) * (Len(lens) - 1)

\* len(str(n))
RECURSIVE DecLen(_)
DecLen(n) == IF n < 10 THEN 1 ELSE 1 + DecLen(n \div 10)

\* lines 77-82: one line per commit
Formatted(commits) == [k \in DOMAIN commits |-> [k |-> k, len |-> commits[k]]]

\* the inserted line
Ellipsis == [k |-> 0, len |-> Len("...")]

\* "\n".join(formatted)
Joined(formatted) == JoinLen([j \in DOMAIN formatted |-> formatted[j].len], "\n")

\* list.pop(i)
ListPop(s, i) == [j \in 1..(Len(s) - 1) |-> IF j <= i THEN s[j] ELSE s[j + 1]]

\* an insert that always appends
ListInsertAtEnd(s, i, x) == Append(s, x)

\* list.insert(i, x): an index past the end appends
ListInsert(s, i, x) ==
    LET p == IF i > Len(s) THEN Len(s) ELSE i IN
    [j \in 1..(Len(s) + 1) |-> IF j <= p THEN s[j] ELSE IF j = p + 1 THEN x ELSE s[j - 1]]

\* the excess without the budget of the field
ExcessUnbudgeted(result) == result + 4

\* line 89: diff
Excess(result) == result - FieldMax + 4

\* embed.add_field(name, value)
AddField(r, name, value) ==
    [r EXCEPT !.fields = Append(@, [name |-> name, value |-> value])]

\* lines 64-70, 100-117: the lengths of the lines of additional_infos (the
\* backquotes around the labels are written ' here)
AdditionalInfos(data) ==
    (IF data.locked THEN <<Len(":lock: locked")>> ELSE <<>>)
    \o (IF data.pull_request THEN <<Len(":arrows_clockwise: Pull request")>> ELSE <<>>)
    \o (IF data.comments # 0
        THEN <<Len(":speech_balloon: Comments : ") + DecLen(data.comments)>> ELSE <<>>)
    \o (IF data.state = "closed"
        THEN <<Len(":x: Closed by ") + data.closed_by + Len(" on ")
                + Len("Jan. 05 12:30 2021")>>
        ELSE IF data.state = "open" THEN <<Len(":white_check_mark: Open")>> ELSE <<>>)
    \o (IF data.labels # <<>>
        THEN <<Len(":label: Labels: '") + JoinLen(data.labels, "' '") + Len("'")>>
        ELSE <<>>)

\* the issue records: a pull request has up to MaxCommits commits, an issue
\* up to MaxLabels labels of one length
CommitLists == UNION {[1..n -> CommitLens] : n \in 0..MaxCommits}

LabelLists == {[k \in 1..n |-> l] : n \in 0..MaxLabels, l \in LabelLens}

IssueRecords ==
    [pull_request : {FALSE}, commits : {<<>>}, locked : BOOLEAN, comments : {0, 12},
     state : {"open", "closed"}, closed_by : {9}, labels : LabelLists]
    \cup
    [pull_request : {TRUE}, commits : CommitLists, locked : BOOLEAN, comments : {0, 12},
     state : {"open", "closed"}, closed_by : {9}, labels : LabelLists]

EmbedInit ==
    /\ \E data \in IssueRecords :
        om = [h \in Handlers |->
                [pc |-> "make_embed", data |-> data, formatted |-> <<>>, result |-> 0,
                 diff |-> 0, removed |-> <<>>, fields |-> <<>>, error |-> "none"]]
    /\ issue_embeds = [k \in {} |-> 1]
    /\ rx = [r \in Reactions |->
                [pc |-> "idle", user_bot |-> FALSE, emoji |-> Trash,
                 message_id |-> NoMessage, outcome |-> "none"]]
    /\ trash = {}
    /\ deleted = [k \in {} |-> 0]
    /\ popped = {}

\* lines 69-89 and 98: the commits are formatted and joined; a result within
\* the limit is the field, a longer one enters the loop
FormatCommits(h) ==
    /\ om[h].pc = "make_embed"
    /\ LET formatted == Formatted(om[h].data.commits)
           result == Joined(formatted)
           r == [om[h] EXCEPT !.formatted = formatted, !.result = result] IN
       om' = [om EXCEPT ![h] =
                IF ~om[h].data.pull_request THEN [om[h] EXCEPT !.pc = "infos"]
                ELSE IF result > FieldMax
                THEN [r EXCEPT !.diff = Excess(result), !.pc = "loop"]
                ELSE [AddField(r, "Commits", result) EXCEPT !.pc = "infos"]]
    /\ UNCHANGED <<issue_embeds, rx, trash, deleted, popped>>

\* lines 91-93: one iteration of the loop; pop of an empty list raises
PopMiddle(h) ==
    /\ om[h].pc = "loop"
    /\ om[h].diff > 0
    /\ LET formatted == om[h].formatted
           i == Len(formatted) \div 2 IN
       om' = [om EXCEPT ![h] =
                IF formatted = <<>>
                THEN [om[h] EXCEPT !.pc = "crashed", !.error = "IndexError"]
                ELSE [om[h] EXCEPT !.formatted = ListPop(formatted, i),
                                   !.diff = @ - (formatted[i + 1].len + 1),
                                   !.removed = Append(@, formatted[i + 1].k)]]
    /\ UNCHANGED <<issue_embeds, rx, trash, deleted, popped>>

\* lines 95-98: the loop is left, '...' is inserted and the field is added
InsertEllipsis(h) ==
    /\ om[h].pc = "loop"
    /\ om[h].diff <= 0
    /\ LET formatted == ListInsert(om[h].formatted, Len(om[h].formatted) \div 2 + 1, Ellipsis)
           result == Joined(formatted)
           r == [om[h] EXCEPT !.formatted = formatted, !.result = result] IN
       om' = [om EXCEPT ![h] = [AddField(r, "Commits", result) EXCEPT !.pc = "infos"]]
    /\ UNCHANGED <<issue_embeds, rx, trash, deleted, popped>>

\* lines 100-121: the second field is added and the embed is returned
ReturnEmbed(h) ==
    /\ om[h].pc = "infos"
    /\ om' = [om EXCEPT ![h] =
                [AddField(om[h], "Additional informations",
                          JoinLen(AdditionalInfos(om[h].data), "\n"))
                    EXCEPT !.pc = "returned"]]
    /\ UNCHANGED <<issue_embeds, rx, trash, deleted, popped>>

EmbedNext ==
    \/ \E h \in Handlers : FormatCommits(h)
    \/ \E h \in Handlers : PopMiddle(h)
    \/ \E h \in Handlers : InsertEllipsis(h)
    \/ \E h \in Handlers : ReturnEmbed(h)

EmbedSpec == EmbedInit /\ [][EmbedNext]_vars

\* C13: every field of the embed has a value of at most 1024 characters
FieldsWithinLimit ==
    \A h \in Handlers :
        \A j \in DOMAIN om[h].fields : om[h].fields[j].value <= FieldMax

(***************************************************************************)
(* The description (lines 51-57), applied to bodies whose length is within *)
(* BodyMargin of the cap, and to the empty body.                           *)
(***************************************************************************)
BodyMargin == 30

\* the maximum size of the description
DescriptionMax == 2048

\* the characters kept of a longer one
DescriptionKept == 2043

\* "[...]"
Marker == <<"[", ".", ".", ".", "]">>

\* a body of n characters; every p-th one is a 'b'
Body(n, p) == [k \in 1..n |-> IF k % p = 0 THEN "b" ELSE "a"]

Bodies ==
    {Body(n, p) : n \in {0} \cup ((DescriptionMax - BodyMargin)..(DescriptionMax + BodyMargin)),
                  p \in {2, 3}}

\* description[:n]
Slice(s, n) == SubSeq(s, 1, IF n > Len(s) THEN Len(s) ELSE n)

\* the marker put after the whole cap
TruncateAtCap(s) ==
    IF Len(s) > DescriptionMax THEN Slice(s, DescriptionMax) \o Marker ELSE s

\* lines 56-57
Truncate(s) ==
    IF Len(s) > DescriptionMax THEN Slice(s, DescriptionKept) \o Marker ELSE s

DescriptionInit ==
    /\ \E body \in Bodies :
        om = [h \in Handlers |->
                [pc |-> "make_embed", data |-> [body |-> body], description |-> <<>>,
                 fields |-> <<>>, error |-> "none"]]
    /\ issue_embeds = [k \in {} |-> 1]
    /\ rx = [r \in Reactions |->
                [pc |-> "idle", user_bot |-> FALSE, emoji |-> Trash,
                 message_id |-> NoMessage, outcome |-> "none"]]
    /\ trash = {}
    /\ deleted = [k \in {} |-> 0]
    /\ popped = {}

\* lines 51-57: the embed is created with the body and the description cut
Describe(h) ==
    /\ om[h].pc = "make_embed"
    /\ om' = [om EXCEPT ![h].description = Truncate(om[h].data.body),
                        ![h].pc = "described"]
    /\ UNCHANGED <<issue_embeds, rx, trash, deleted, popped>>

DescriptionNext == \E h \in Handlers : Describe(h)

DescriptionSpec == DescriptionInit /\ [][DescriptionNext]_vars

\* C14: the description has at most 2048 characters; a body of at most 2048
\* is kept as it is, a longer one becomes its first 2043 characters and '[...]'
DescriptionWithinCap ==
    \A h \in Handlers :
        om[h].pc = "described" =>
            LET body == om[h].data.body
                description == om[h].description IN
            /\ Len(description) <= 2048
            /\ Len(body) <= 2048 => description = body
            /\ Len(body) > 2048 =>
                /\ Len(description) = 2048
                /\ \A k \in 1..2043 : description[k] = body[k]
                /\ \A k \in 1..5 : description[2043 + k] = Marker[k]

\* a body of 2049 characters has been cut
LongBodyWitness ==
    \E h \in Handlers :
        /\ om[h].pc = "described"
        /\ Len(om[h].data.body) = 2049
        /\ Len(om[h].description) = 2048

(***************************************************************************)
(* The Moderation cog (moderation.py).  A compiled pattern is its syntax   *)
(* tree; Ends gives the positions where a match of the pattern that starts *)
(* at position i of s can end.                                             *)
(***************************************************************************)
Eps == [op |-> "eps"]

Class(chars) == [op |-> "class", chars |-> chars]

Cat(l, r) == [op |-> "cat", l |-> l, r |-> r]

Alt(l, r) == [op |-> "alt", l |-> l, r |-> r]

Star(p) == [op |-> "star", p |-> p]

RECURSIVE Ends(_, _, _)
RECURSIVE StarEnds(_, _, _, _)
Ends(p, s, i) ==
    CASE p.op = "eps" -> {i}
      [] p.op = "class" -> IF i <= Len(s) /\ s[i] \in p.chars THEN {i + 1} ELSE {}
      [] p.op = "cat" -> UNION {Ends(p.r, s, j) : j \in Ends(p.l, s, i)}
      [] p.op = "alt" -> Ends(p.l, s, i) \cup Ends(p.r, s, i)
      [] p.op = "star" -> StarEnds(p.p, s, {i}, {i})

\* the repetitions of p from the positions of frontier
StarEnds(p, s, frontier, seen) ==
    LET new == UNION {Ends(p, s, j) : j \in frontier} \ seen IN
    IF new = {} THEN seen ELSE StarEnds(p, s, new, seen \cup new)

\* pattern.match(s): a match that starts at the start, up to anywhere
Match(p, s) == Ends(p, s, 1) # {}

\* pattern.fullmatch(s): a match of the whole of s
FullMatch(p, s) == (Len(s) + 1) \in Ends(p, s, 1)

ModAlphabet == {"1", "#", "\n"}

ModTexts == UNION {[1..n -> ModAlphabet] : n \in 0..MaxLen}

\* "[0-9]+", "#.*" and "" (the dot matches all but the newline)
Patterns ==
    {Cat(Class(Digits), Star(Class(Digits))),
     Cat(Class({"#"}), Star(Class(ModAlphabet \ {"\n"}))),
     Eps}

Channels == {"10", "20"}

\* the values config["REGEX_CHANNELS"] can have
RegexChannels == UNION {[chans -> Patterns] : chans \in SUBSET Channels}

\* the decorator lets the handler run for the messages not written by a bot
user_only(message) == ~message.author_bot

\* the filter that deletes whatever is not matched from its start
RejectsUnmatchedStart(regex_patterns, message) ==
    /\ message.channel \in DOMAIN regex_patterns
    /\ ~Match(regex_patterns[message.channel], message.content)

\* lines 26-27: the message is to be deleted
Rejects(regex_patterns, message) ==
    /\ message.channel \in DOMAIN regex_patterns
    /\ ~FullMatch(regex_patterns[message.channel], message.content)

\* lines 14-20: the cog is built from the configuration
ModerationInit ==
    /\ \E config \in RegexChannels :
        om = [h \in Handlers |->
                [pc |-> "idle", regex_patterns |-> config,
                 message |-> [channel |-> "", content |-> <<>>, author_bot |-> FALSE]]]
    /\ issue_embeds = [k \in {} |-> 1]
    /\ rx = [r \in Reactions |->
                [pc |-> "idle", user_bot |-> FALSE, emoji |-> Trash,
                 message_id |-> NoMessage, outcome |-> "none"]]
    /\ trash = {}
    /\ deleted = [k \in {} |-> 0]
    /\ popped = {}

\* lines 22-28: a message arrives; the handler returns or calls message.delete()
ModerationOnMessage(h, message) ==
    /\ om[h].pc = "idle"
    /\ om' = [om EXCEPT
                ![h].message = message,
                ![h].pc = IF user_only(message) /\ Rejects(om[h].regex_patterns, message)
                          THEN "delete" ELSE "done"]
    /\ UNCHANGED <<issue_embeds, rx, trash, deleted, popped>>

\* line 28: the platform deletes the message and the handler returns
ModerationDeleted(h) ==
    /\ om[h].pc = "delete"
    /\ om' = [om EXCEPT ![h].pc = "done"]
    /\ deleted' = [k \in DOMAIN deleted \cup {Id(h, 0)} |-> DeleteCount(Id(h, 0)) + 1]
    /\ UNCHANGED <<issue_embeds, rx, trash, popped>>

ModerationNext ==
    \/ \E h \in Handlers :
        /\ om[h].pc = "idle"
        /\ \E message \in [channel : Channels, content : ModTexts, author_bot : BOOLEAN] :
            ModerationOnMessage(h, message)
    \/ \E h \in Handlers : ModerationDeleted(h)

ModerationSpec == ModerationInit /\ [][ModerationNext]_vars

\* C15: once the handler has returned, a message written by a user is deleted
\* if and only if its channel has a pattern and the content does not match
\* the pattern as a whole
FilterDeletesIffMismatch ==
    \A h \in Handlers :
        (om[h].pc = "done" /\ ~om[h].message.author_bot) =>
            (DeleteCount(Id(h, 0)) = 1 <=>
                /\ om[h].message.channel \in DOMAIN om[h].regex_patterns
                /\ ~FullMatch(om[h].regex_patterns[om[h].message.channel],
                              om[h].message.content))

\* '1#' has been deleted from a channel of "[0-9]+" and nothing else is
\* configured
FilterDeletedWitness ==
    \E h \in Handlers :
        /\ om[h].pc = "done"
        /\ ~om[h].message.author_bot
        /\ om[h].message.content = <<"1", "#">>
        /\ DOMAIN om[h].regex_patterns = {om[h].message.channel}
        /\ FullMatch(om[h].regex_patterns[om[h].message.channel], <<"1", "1">>)
        /\ DeleteCount(Id(h, 0)) = 1

(***************************************************************************)
(* The two checks of on_message.                                           *)
(***************************************************************************)
\* invocation h has made a request from fn
Requested(h, fn) == \E i \in DOMAIN om[h].gets : om[h].gets[i].fn = fn

\* invocation h has returned or has been stopped by an exception
Stopped(h) == om[h].pc \in {"done", "crashed"}

\* C16: once the handler of '#123456' has stopped, the colour lookup and the
\* issue lookup have both been made, whatever the colour lookup answered
BothLookupsMade ==
    \A h \in Handlers :
        (Stopped(h) /\ om[h].content = HexAndIssue) =>
            /\ Requested(h, "make_color_embed")
            /\ Requested(h, "get_github_issues")


\* every lookup of an issue made by invocation h was answered with success
AllIssuesFound(h) ==
    \A i \in DOMAIN om[h].gets :
        om[h].gets[i].fn = "get_github_issues" => om[h].gets[i].status = OK

\* the embed of reference n of invocation h has been posted
EmbedPosted(h, n) ==
    \E k \in DOMAIN om[h].sent :
        /\ om[h].sent[k].line = 186
        /\ om[h].sent[k].n = n
        /\ om[h].sent[k].posted

\* C17: once the handler has stopped with every issue lookup a success and no
\* call refused by the platform, an embed has been posted for every reference
\* of the message, whatever reactions were added
EveryReferencePosted ==
    \A h \in Handlers :
        (Stopped(h) /\ AllIssuesFound(h) /\ om[h].error # "HTTPException") =>
            \A n \in DOMAIN om[h].matches : EmbedPosted(h, n)


Truncated(h) ==
    /\ om[h].pc \in {"infos", "returned"}
    /\ om[h].removed # <<>>

\* the commit lines left in the field, by their index in commits_data
Remaining(h) ==
    LET lines == SelectSeq(om[h].formatted, LAMBDA line : line # Ellipsis) IN
    [j \in DOMAIN lines |-> lines[j].k]

\* the number of lines before '...'
EllipsisAt(h) ==
    (CHOOSE j \in DOMAIN om[h].formatted : om[h].formatted[j] = Ellipsis) - 1

\* the indexes of the removed lines
RemovedSet(h) == {om[h].removed[j] : j \in DOMAIN om[h].removed}

\* the number of lines left that came before every removed line
GapAt(h) ==
    Cardinality({j \in DOMAIN Remaining(h) :
                    \A k \in RemovedSet(h) : Remaining(h)[j] < k})

\* the lines left are in their original order and none of them lay between
\* two removed lines
OrderKept(h) ==
    /\ \A i, j \in DOMAIN Remaining(h) : i < j => Remaining(h)[i] < Remaining(h)[j]
    /\ \A j \in DOMAIN Remaining(h) :
        \/ \A k \in RemovedSet(h) : Remaining(h)[j] < k
        \/ \A k \in RemovedSet(h) : Remaining(h)[j] > k

\* C19 as stated: the lines before '...' came before every removed line, the
\* lines after it came after every removed line, and the order is kept
EllipsisAtGap ==
    \A h \in Handlers :
        Truncated(h) => (OrderKept(h) /\ EllipsisAt(h) = GapAt(h))

\* C19: the lines left keep their order and the removed lines were adjacent;
\* '...' sits where they were when an odd number of lines (or none) is left,
\* and one line further down when an even number is left
EllipsisAtOrAfterGap ==
    \A h \in Handlers :
        Truncated(h) =>
            /\ OrderKept(h)
            /\ EllipsisAt(h) = GapAt(h) +
                (IF Len(Remaining(h)) > 0 /\ Len(Remaining(h)) % 2 = 0 THEN 1 ELSE 0)

\* of three lines the second was removed, and '...' is the last line
EllipsisDisplacedWitness ==
    \E h \in Handlers :
        /\ Truncated(h)
        /\ Len(om[h].data.commits) = 3
        /\ om[h].removed = <<2>>
        /\ om[h].formatted[3] = Ellipsis

\* C20: the loop removes at most as many lines as there were, never pops an
\* empty list, and is left with an excess of at most 0
LoopEndsWithinLines ==
    \A h \in Handlers :
        /\ Len(om[h].removed) <= Len(om[h].data.commits)
        /\ om[h].pc # "crashed"
        /\ (om[h].pc = "loop" /\ om[h].diff > 0) => om[h].formatted # <<>>
        /\ Truncated(h) => om[h].diff <= 0

\* a list of two lines has been emptied by the loop
LoopEmptiesListWitness ==
    \E h \in Handlers :
        /\ Truncated(h)
        /\ Len(om[h].data.commits) = 2
        /\ Len(om[h].removed) = 2
        /\ om[h].diff <= 0

====
